---- MODULE Spec2Model ----
(***************************************************************************)
(* Model of imodels/tree/viz_utils.py: the conversion of one tree of a     *)
(* FIGS ensemble into the arrays and state bundle of an sklearn decision   *)
(* tree (_extract_arrays_from_figs_tree, extract_sklearn_tree_from_figs).  *)
(*                                                                         *)
(* A linked FIGS tree is an arena: a function from heap positions (root 1, *)
(* left child of p is 2p, right child 2p+1) to the node's attributes.  A   *)
(* reference to a node is its position; the reference None is 0; the tree  *)
(* None is the function with the empty domain.  Python sequences are TLA+  *)
(* sequences; a Python index i is the TLA+ index i+1.                      *)
(***************************************************************************)
EXTENDS Integers, Sequences, FiniteSets

\* ------------------------------------------------------------ bounds
MaxNodes == 5
MaxRows == 2
MaxTrees == 2

\* ------------------------------------------------------------ constants
\* idx_left = idx_right = -1
TREE_LEAF == -1
\* feature = threshold = -2
TREE_UNDEFINED == -2
\* get_max_depth(None)
DEPTH_OF_NONE == -1
\* n_outputs of a 1-D label vector
N_OUTPUTS_DEFAULT == 1

\* the reference None
None == 0

\* ------------------------------------------------------------ node access
\* node.left
left(t, p) == IF 2 * p \in DOMAIN t THEN 2 * p ELSE None

\* node.right
right(t, p) == IF 2 * p + 1 \in DOMAIN t THEN 2 * p + 1 ELSE None

\* the reference held by figs_tree: the root, or None for the tree None
root(t) == IF 1 \in DOMAIN t THEN 1 ELSE None

\* ------------------------------------------------------------ inputs
RECURSIVE SubtreeShapes(_, _)
\* the sets of positions of the linked subtrees rooted at p with exactly n nodes
SubtreeShapes(p, n) ==
  IF n = 0 THEN {{}}
  ELSE UNION {{({p} \cup l) \cup r : l \in SubtreeShapes(2 * p, k),
                                    r \in SubtreeShapes(2 * p + 1, n - 1 - k)}
              : k \in 0..(n - 1)}

Shapes == UNION {SubtreeShapes(1, n) : n \in 0..MaxNodes}

RECURSIVE Preorder(_, _)
\* the nodes of the subtree at p: the node, its left subtree, its right subtree
Preorder(s, p) ==
  IF p \notin s THEN <<>>
  ELSE <<p>> \o Preorder(s, 2 * p) \o Preorder(s, 2 * p + 1)

IndexOf(seq, x) == CHOOSE i \in 1..Len(seq) : seq[i] = x

\* the numberings the producing algorithm may give the nodes (node.node_num)
Numberings == {"preorder", "levelorder"}

NodeNum(s, numbering, p) ==
  IF numbering = "preorder" THEN IndexOf(Preorder(s, 1), p) - 1
  ELSE Cardinality({q \in s : q < p})

\* node.threshold: every split is X[:, feature] <= 0
Thresholds == {0}

\* the linked trees: every node carries node_num, feature, threshold, impurity;
\* the impurity of a node is its position, so that a record names its node
Trees ==
  {[p \in s |-> [node_num |-> NodeNum(s, numbering, p), feature |-> 0,
                 threshold |-> th, impurity |-> p]]
   : s \in Shapes, numbering \in Numberings, th \in Thresholds}

NoneTree == [p \in {} |-> 0]

\* a single leaf, the other trees of an ensemble
StubTree == [p \in {1} |-> [node_num |-> 0, feature |-> 0, threshold |-> 0, impurity |-> 1]]

\* figs.trees_: up to MaxTrees trees
Ensembles ==
  {<<>>} \cup {[i \in 1..n |-> IF i = n THEN t ELSE StubTree] : n \in 1..MaxTrees, t \in Trees}

\* isinstance(figs, ClassifierMixin) / RegressorMixin
Kinds == {"classifier", "regressor"}

\* the rows of X (one feature column) and the class labels of y
Rows == {<<0>>, <<1>>}
Labels == {0, 1, 2}

\* a total order on the (row, label) pairs, to list each dataset once
Rank(x, l) == 3 * x[1] + l

\* the datasets (X, y) of up to MaxRows rows, rows in nondecreasing order
Datasets ==
  UNION {{d \in [X : [1..n -> Rows], y : [1..n -> Labels]] :
            \A i \in 1..(n - 1) : Rank(d.X[i], d.y[i]) <= Rank(d.X[i + 1], d.y[i + 1])}
         : n \in 0..MaxRows}

VARIABLES figs, tree_number, X_train, y_train,
          pc, figs_tree, stack, tree_data, value_array, values, state, n_classes,
          tree, dt, error

inputs == <<figs, tree_number, X_train, y_train>>
vars == <<figs, tree_number, X_train, y_train,
          pc, figs_tree, stack, tree_data, value_array, values, state, n_classes,
          tree, dt, error>>

\* ------------------------------------------------------------ helpers
\* a subscript that yields None past the end of the list instead of raising
SubscriptNoRaise(seq, i) ==
  IF 0 <= i /\ i < Len(seq) THEN [ok |-> TRUE, val |-> seq[i + 1]]
  ELSE IF i < 0 /\ -i <= Len(seq) THEN [ok |-> TRUE, val |-> seq[Len(seq) + i + 1]]
  ELSE [ok |-> TRUE, val |-> NoneTree]

\* figs.trees_[tree_number]: a Python list subscript
Subscript(seq, i) ==
  IF 0 <= i /\ i < Len(seq) THEN [ok |-> TRUE, val |-> seq[i + 1]]
  ELSE IF i < 0 /\ -i <= Len(seq) THEN [ok |-> TRUE, val |-> seq[Len(seq) + i + 1]]
  ELSE [ok |-> FALSE, val |-> NoneTree]

\* pd.Series(y).value_counts()[c], 0 on KeyError
value_counts(y, c) == Cardinality({i \in 1..Len(y) : y[i] = c})

\* arr[mask]: the rows of arr where the boolean mask holds
Masked(arr, mask) ==
  LET idx == SelectSeq([i \in 1..Len(arr) |-> i], LAMBDA i : mask[i])
  IN  [j \in 1..Len(idx) |-> arr[idx[j]]]

\* left_X_idx = X[:, feature] <= threshold
left_X_idx(X, feature, threshold) == [i \in 1..Len(X) |-> X[i][feature + 1] <= threshold]

Negate(mask) == [i \in 1..Len(mask) |-> ~mask[i]]

EmptyTreeData ==
  [left_child |-> <<>>, right_child |-> <<>>, feature |-> <<>>, threshold |-> <<>>,
   impurity |-> <<>>, n_node_samples |-> <<>>, weighted_n_node_samples |-> <<>>]

NoState == [max_depth |-> 0, node_count |-> 0]

Init ==
  /\ figs \in [trees_ : Ensembles, kind : Kinds]
  /\ tree_number \in -1..MaxTrees
  /\ \E d \in Datasets : X_train = d.X /\ y_train = d.y
  /\ pc = "lookup"
  /\ figs_tree = NoneTree
  /\ stack = <<>>
  /\ tree_data = EmptyTreeData
  /\ value_array = <<>>
  /\ values = <<>>
  /\ state = NoState
  /\ n_classes = 0
  /\ tree = [setstate |-> "none"]
  /\ dt = [variant |-> "none", setstate |-> "none"]
  /\ error = "none"

\* try: figs_tree = figs.trees_[tree_number]; the call of the flattener
Lookup ==
  /\ pc = "lookup"
  /\ LET r == Subscript(figs.trees_, tree_number) IN
       IF r.ok
       THEN /\ figs_tree' = r.val
            /\ stack' = <<[node |-> root(r.val), X |-> X_train, y |-> y_train]>>
            /\ pc' = "flatten"
            /\ error' = error
       ELSE /\ pc' = "raised"
            /\ error' = "AttributeError: Can not load tree_number"
            /\ UNCHANGED <<figs_tree, stack>>
  /\ UNCHANGED <<inputs, tree_data, value_array, values, state, n_classes, tree, dt>>


\* has_children = node.left is not None
has_children(t, node) == left(t, node) # None

\* the two recursive calls made right subtree first
RecurseRightFirst(t, node, X, y) ==
  LET n == t[node]
      mask == left_X_idx(X, n.feature, n.threshold)
  IN  <<[node |-> right(t, node), X |-> Masked(X, Negate(mask)), y |-> Masked(y, Negate(mask))],
        [node |-> left(t, node), X |-> Masked(X, mask), y |-> Masked(y, mask)]>>

\* the two recursive calls of _update_node, in the order they are made
Recurse(t, node, X, y) ==
  LET n == t[node]
      mask == left_X_idx(X, n.feature, n.threshold)
  IN  <<[node |-> left(t, node), X |-> Masked(X, mask), y |-> Masked(y, mask)],
        [node |-> right(t, node), X |-> Masked(X, Negate(mask)), y |-> Masked(y, Negate(mask))]>>

\* the record _update_node appends for a node reached by the labels y
AppendRecord(td, t, node, y) ==
  LET n == t[node]
      hc == has_children(t, node)
      neg_count == value_counts(y, 0)
      pos_count == value_counts(y, 1)
  IN  [left_child |-> Append(td.left_child, IF hc THEN t[left(t, node)].node_num ELSE TREE_LEAF),
       right_child |-> Append(td.right_child, IF hc THEN t[right(t, node)].node_num ELSE TREE_LEAF),
       feature |-> Append(td.feature, IF hc THEN n.feature ELSE TREE_UNDEFINED),
       threshold |-> Append(td.threshold, IF hc THEN n.threshold ELSE TREE_UNDEFINED),
       impurity |-> Append(td.impurity, n.impurity),
       n_node_samples |-> Append(td.n_node_samples, neg_count + pos_count),
       weighted_n_node_samples |-> Append(td.weighted_n_node_samples, neg_count + pos_count)]

\* one call of _update_node(node, X, y): the call on top of the call stack
UpdateNode ==
  /\ pc = "flatten"
  /\ stack # <<>>
  /\ LET f == Head(stack) IN
       IF f.node = None
       THEN \* if node is None: return
            /\ stack' = Tail(stack)
            /\ UNCHANGED <<pc, tree_data, value_array, error>>
       ELSE IF has_children(figs_tree, f.node) /\ right(figs_tree, f.node) = None
       THEN \* node.right.node_num of None
            /\ pc' = "raised"
            /\ error' = "AttributeError: NoneType has no attribute node_num"
            /\ UNCHANGED <<stack, tree_data, value_array>>
       ELSE /\ tree_data' = AppendRecord(tree_data, figs_tree, f.node, f.y)
            /\ value_array' = Append(value_array, <<value_counts(f.y, 0), value_counts(f.y, 1)>>)
            /\ stack' = (IF has_children(figs_tree, f.node)
                         THEN Recurse(figs_tree, f.node, f.X, f.y) ELSE <<>>) \o Tail(stack)
            /\ UNCHANGED <<pc, error>>
  /\ UNCHANGED <<inputs, figs_tree, values, state, n_classes, tree, dt>>

\* np.array(value_array).shape
ShapeOf(va) == IF Len(va) = 0 THEN <<0>> ELSE <<Len(va), Len(va[1])>>

\* the flattener returns; the record array is built and value_array reshaped
BuildArrays ==
  /\ pc = "flatten"
  /\ stack = <<>>
  /\ LET shape == ShapeOf(value_array) IN
       IF Len(shape) < 2
       THEN \* value_array.shape[1] of a 1-D array
            /\ pc' = "raised"
            /\ error' = "IndexError: tuple index out of range"
            /\ UNCHANGED values
       ELSE /\ values' = <<shape[1], 1, shape[2]>>
            /\ pc' = "metadata"
            /\ UNCHANGED error
  /\ UNCHANGED <<inputs, figs_tree, stack, tree_data, value_array, state, n_classes, tree, dt>>

RECURSIVE get_max_depth(_, _)
get_max_depth(t, node) ==
  IF node = None THEN DEPTH_OF_NONE
  ELSE LET l == get_max_depth(t, left(t, node))
           r == get_max_depth(t, right(t, node))
       IN  1 + (IF l >= r THEN l ELSE r)

\* np.unique(y_train).size
unique_size(y) == Cardinality({y[i] : i \in 1..Len(y)})

\* max_depth, node_count, n_classes and the _state dict
Metadata ==
  /\ pc = "metadata"
  /\ state' = [max_depth |-> get_max_depth(figs_tree, root(figs_tree)),
               node_count |-> Len(tree_data.left_child)]
  /\ n_classes' = unique_size(y_train)
  /\ pc' = "tree_setstate"
  /\ UNCHANGED <<inputs, figs_tree, stack, tree_data, value_array, values, tree, dt, error>>

\* tree = Tree(...); tree.__setstate__(_state): the runtime accepts the bundle
\* or rejects it with an exception of its own, which nothing catches
TreeSetstate ==
  /\ pc = "tree_setstate"
  /\ \E accepted \in BOOLEAN :
       IF accepted
       THEN /\ tree' = [setstate |-> "accepted"]
            /\ pc' = "select"
            /\ UNCHANGED error
       ELSE /\ tree' = [setstate |-> "rejected"]
            /\ pc' = "raised"
            /\ error' = "ValueError raised by Tree.__setstate__"
  /\ UNCHANGED <<inputs, figs_tree, stack, tree_data, value_array, values, state, n_classes, dt>>

\* if isinstance(figs, ClassifierMixin) ... elif isinstance(self, RegressorMixin):
\* the name self is not defined in the function
SelectVariant ==
  /\ pc = "select"
  /\ IF figs.kind = "classifier"
     THEN /\ dt' = [variant |-> "DecisionTreeClassifier", setstate |-> "none"]
          /\ pc' = "dt_setstate"
          /\ UNCHANGED error
     ELSE /\ pc' = "raised"
          /\ error' = "NameError: name self is not defined"
          /\ UNCHANGED dt
  /\ UNCHANGED <<inputs, figs_tree, stack, tree_data, value_array, values, state, n_classes, tree>>

\* try: dt.__setstate__(_state) except: raise Exception(...); return dt
DtSetstate ==
  /\ pc = "dt_setstate"
  /\ \E accepted \in BOOLEAN :
       IF accepted
       THEN /\ dt' = [dt EXCEPT !.setstate = "accepted"]
            /\ pc' = "done"
            /\ UNCHANGED error
       ELSE /\ dt' = [dt EXCEPT !.setstate = "rejected"]
            /\ pc' = "raised"
            /\ error' = "Exception: Did not successfully run __setstate__() when translating to "
                          \o dt.variant
  /\ UNCHANGED <<inputs, figs_tree, stack, tree_data, value_array, values, state, n_classes, tree>>

Next ==
  \/ Lookup
  \/ UpdateNode
  \/ BuildArrays
  \/ Metadata
  \/ TreeSetstate
  \/ SelectVariant
  \/ DtSetstate

Spec == Init /\ [][Next]_vars

\* ------------------------------------------------------------ properties
CanNotLoad == "AttributeError: Can not load tree_number"
NoneTypeError == "AttributeError: NoneType has no attribute node_num"

Terminal == pc \in {"done", "raised"}

\* a tree was selected from the ensemble
Selected == pc # "lookup" /\ error # CanNotLoad

\* _extract_arrays_from_figs_tree has returned its output
Flattened ==
  /\ Selected
  /\ error # NoneTypeError
  /\ pc = "flatten" => stack = <<>>

\* the conversion is past the computation of the metadata
MetadataDone == pc \in {"tree_setstate", "select", "dt_setstate", "done"}

Nodes(t) == DOMAIN t
Internal(t) == {p \in DOMAIN t : 2 * p \in DOMAIN t \/ 2 * p + 1 \in DOMAIN t}
Leaves(t) == DOMAIN t \ Internal(t)
FullBinary(t) == \A p \in DOMAIN t : (2 * p \in DOMAIN t) <=> (2 * p + 1 \in DOMAIN t)
OneChild(t) == \E p \in DOMAIN t : (2 * p \in DOMAIN t) # (2 * p + 1 \in DOMAIN t)

NumRecords == Len(tree_data.left_child)

\* the Python position of the record of node p (the record whose impurity is p)
PositionOf(p) ==
  IF \E i \in 1..Len(tree_data.impurity) : tree_data.impurity[i] = p
  THEN IndexOf(tree_data.impurity, p) - 1
  ELSE -1

\* C1: in the flattener's output for a tree whose internal nodes all have both
\* children, the record at position p of an internal node holds the positions of
\* the records of its left and right child, both > p and < the number of records.
C1_ChildIndicesArePositions ==
  (Flattened /\ FullBinary(figs_tree)) =>
    \A i \in 1..NumRecords :
      LET p == tree_data.impurity[i] IN
        p \in Internal(figs_tree) =>
          /\ tree_data.left_child[i] = PositionOf(2 * p)
          /\ tree_data.right_child[i] = PositionOf(2 * p + 1)
          /\ tree_data.left_child[i] > i - 1 /\ tree_data.left_child[i] < NumRecords
          /\ tree_data.right_child[i] > i - 1 /\ tree_data.right_child[i] < NumRecords

\* C2: in the flattener's output, the sample_count of every record with
\* non-sentinel children is the sum of the sample_count of the records at its
\* stored left_child and right_child indices.
C2_SampleCountIsSumOfChildren ==
  Flattened =>
    \A i \in 1..NumRecords :
      LET l == tree_data.left_child[i]
          r == tree_data.right_child[i]
      IN  (l # TREE_LEAF \/ r # TREE_LEAF) =>
            /\ 0 <= l /\ l < NumRecords
            /\ 0 <= r /\ r < NumRecords
            /\ tree_data.n_node_samples[i] =
                 tree_data.n_node_samples[l + 1] + tree_data.n_node_samples[r + 1]

\* C3: for a non-empty tree, the sample_count of the first record is the number
\* of rows of the dataset, whatever the class labels.
C3_RootCountIsRowCount ==
  (Flattened /\ figs_tree # NoneTree) =>
    /\ NumRecords >= 1
    /\ tree_data.n_node_samples[1] = Len(X_train)

\* C4: every value histogram has the same length, the number of distinct labels
\* of y_train, which is the last dimension of the value tensor and the class
\* count given to Tree(...).
C4_HistogramLengthIsClassCount ==
  MetadataDone =>
    /\ \A i \in 1..Len(value_array) : Len(value_array[i]) = n_classes
    /\ values = <<state.node_count, N_OUTPUTS_DEFAULT, n_classes>>

\* C5: for a tree with N internal nodes and L leaves whose internal nodes all
\* have both children, the flattener emits N+L records in pre-order, exactly N
\* of them with non-sentinel child indices, and every leaf record has child
\* indices -1 and feature and threshold -2.
C5_OneRecordPerNodeInPreorder ==
  (Flattened /\ FullBinary(figs_tree)) =>
    /\ NumRecords = Cardinality(Internal(figs_tree)) + Cardinality(Leaves(figs_tree))
    /\ \A f \in DOMAIN tree_data : Len(tree_data[f]) = NumRecords
    /\ Len(value_array) = NumRecords
    /\ tree_data.impurity = Preorder(Nodes(figs_tree), 1)
    /\ Cardinality({i \in 1..NumRecords :
                      tree_data.left_child[i] # TREE_LEAF /\ tree_data.right_child[i] # TREE_LEAF})
         = Cardinality(Internal(figs_tree))
    /\ \A i \in 1..NumRecords :
         tree_data.impurity[i] \in Leaves(figs_tree) =>
           /\ tree_data.left_child[i] = TREE_LEAF
           /\ tree_data.right_child[i] = TREE_LEAF
           /\ tree_data.feature[i] = TREE_UNDEFINED
           /\ tree_data.threshold[i] = TREE_UNDEFINED

\* a five-node tree whose left child is internal has been flattened
C5_Witness ==
  /\ Flattened
  /\ Nodes(figs_tree) = {1, 2, 3, 4, 5}
  /\ tree_data.impurity = <<1, 2, 4, 5, 3>>

\* C6: for a tree with a node that has exactly one child, the conversion ends in
\* a structural-violation error: it returns no object and ends in no other failure.
C6_OneChildIsStructuralViolation ==
  (Selected /\ OneChild(figs_tree) /\ Terminal) =>
    /\ pc = "raised"
    /\ error = "StructuralViolation"

\* C7: when the selected tree is None the flattener produces no record and no
\* histogram, and the conversion completes with node_count 0 and max depth -1
\* (the runtime accepting the bundle, for a classifier).
C7_EmptyTreeConverts ==
  (Selected /\ figs_tree = NoneTree) =>
    /\ Flattened => (tree_data = EmptyTreeData /\ value_array = <<>>)
    /\ (Terminal /\ figs.kind = "classifier"
          /\ tree.setstate # "rejected" /\ dt.setstate # "rejected") =>
         /\ pc = "done"
         /\ state = [max_depth |-> DEPTH_OF_NONE, node_count |-> 0]

NoWorkDone ==
  /\ figs_tree = NoneTree
  /\ stack = <<>>
  /\ tree_data = EmptyTreeData
  /\ value_array = <<>>
  /\ values = <<>>
  /\ state = NoState
  /\ n_classes = 0
  /\ tree = [setstate |-> "none"]
  /\ dt = [variant |-> "none", setstate |-> "none"]

\* C8: with a tree index at least the number of trees the conversion fails with
\* the index error before any flattening, depth computation or construction;
\* with an index that exists no index error is reported.
C8_IndexError ==
  /\ tree_number >= Len(figs.trees_) =>
       /\ pc \in {"lookup", "raised"}
       /\ pc = "raised" => error = CanNotLoad
       /\ NoWorkDone
  /\ (0 <= tree_number /\ tree_number < Len(figs.trees_)) => error # CanNotLoad

\* the index one past the end of a non-empty ensemble was refused
C8_Witness ==
  /\ Len(figs.trees_) >= 1
  /\ tree_number = Len(figs.trees_)
  /\ pc = "raised"
  /\ error = CanNotLoad

VariantOf(kind) ==
  IF kind = "classifier" THEN "DecisionTreeClassifier" ELSE "DecisionTreeRegressor"

\* C9: the returned object is a classifier for a classification model and a
\* regressor for a regression model; once the tree value is populated the
\* conversion returns a populated object unless the runtime rejects the bundle.
C9_VariantMatchesKind ==
  /\ pc = "done" => (dt.variant = VariantOf(figs.kind) /\ dt.setstate = "accepted")
  /\ (Terminal /\ tree.setstate = "accepted" /\ dt.setstate # "rejected") => pc = "done"

SchemaRejection(target) ==
  "Exception: Did not successfully run __setstate__() when translating to " \o target

\* C10: when the runtime rejects the bundle in either populate step, the
\* conversion fails with the schema-rejection error naming the target type.
C10_RejectionIsReported ==
  /\ tree.setstate = "rejected" => (pc = "raised" /\ error = SchemaRejection("Tree"))
  /\ dt.setstate = "rejected" => (pc = "raised" /\ error = SchemaRejection(dt.variant))
====
